---- MODULE Spec2Model ----
(***************************************************************************)
(* small-council: a question is sent to every council model (Stage 1), the *)
(* models that answered rank each other's anonymised answers (Stage 2) and *)
(* a chairman model writes the final answer (Stage 3).                     *)
(*                                                                         *)
(* The HTTP client (openrouter.py) and the CLI (cli.py, output/) are       *)
(* modelled from their source.  The orchestrator run_full_council, which   *)
(* cli.py imports from small_council.council, is modelled from the         *)
(* written specification of the deliberation pipeline.                     *)
(***************************************************************************)
EXTENDS Integers, Sequences, FiniteSets

\* ------------------------------------------------------------------ bounds

\* Longest council list the model explores.
MaxCouncil == 3

\* Model identifiers a council list is drawn from.
ModelNames == <<"A", "B", "C">>

Models == {ModelNames[i] : i \in 1..Len(ModelNames)}

\* The chairman of every explored run.
chairman_model == "CH"

\* ------------------------------------------------------------- data model

\* Text is a sequence of words; '' is the empty sequence.
EmptyText == << >>

\* Python's None as the value query_model returns for a failed call, and a
\* response dict {'content': c, ...} otherwise.
None == [none |-> TRUE, content |-> EmptyText]

ResponseDict(c) == [none |-> FALSE, content |-> c]

\* What the network does to one POST: a 2xx answer whose JSON holds a
\* message with content, an error status, a timeout, a transport error, a
\* body without choices[0].message; NullContent is a 2xx answer whose
\* message content is null (explored for reviewers and the chairman).
FailureKinds == {"http_status_error", "timeout", "transport_error", "malformed_payload"}

NetEvents(contents) ==
    {[kind |-> "ok", content |-> c] : c \in contents}
        \cup {[kind |-> k, content |-> EmptyText] : k \in FailureKinds}

NullContent == [kind |-> "ok_null_content", content |-> EmptyText]

NetOk(ev) == ev.kind \in {"ok", "ok_null_content"}

\* --------------------------------------------------------- openrouter.py

\* query_model with the handlers of a plausible slip: the timeout handler
\* returns an empty response dict instead of None.
query_model_timeout_as_empty(ev) ==
    IF ev.kind = "ok" THEN ResponseDict(ev.content)
    ELSE IF ev.kind \in {"ok_null_content", "timeout"} THEN ResponseDict(EmptyText)
    ELSE None

\* query_model: the response dict of a 2xx answer (content, or '' when the
\* content is null), None for every exception do_request raises.
query_model(ev) ==
    IF ev.kind = "ok" THEN ResponseDict(ev.content)
    ELSE IF ev.kind = "ok_null_content" THEN ResponseDict(EmptyText)
    ELSE None

\* A Python dict as the sequence of its items in insertion order.
DictHas(d, k) == \E i \in 1..Len(d) : d[i].key = k

\* d[k] = v: an existing key keeps its position and takes the new value.
DictSet(d, k, v) ==
    IF DictHas(d, k)
    THEN [i \in 1..Len(d) |-> IF d[i].key = k THEN [key |-> k, value |-> v] ELSE d[i]]
    ELSE Append(d, [key |-> k, value |-> v])

RECURSIVE DictFromZip(_, _, _)
\* {model: response for model, response in zip(models, responses)}, built
\* from the first n pairs.
DictFromZip(models, responses, n) ==
    IF n = 0 THEN << >>
    ELSE DictSet(DictFromZip(models, responses, n - 1), models[n], responses[n])

\* One task of the fan-out: the model it queries, whether its request has
\* settled, whether the network answered it, and what query_model returned.
Task(m) == [model |-> m, done |-> FALSE, net_ok |-> FALSE, response |-> None]

\* tasks = [query_model(model, ...) for model in models]
CreateTasks(models) == [i \in 1..Len(models) |-> Task(models[i])]

\* asyncio.wait(..., FIRST_COMPLETED) in place of gather: the fan-out
\* returns as soon as one task has settled.
GatherFirstCompleted(ts) == \E i \in 1..Len(ts) : ts[i].done

\* await asyncio.gather(*tasks) returns once every task has settled.
GatherReturns(ts) == \A i \in 1..Len(ts) : ts[i].done

\* query_models_parallel: results of the settled tasks, keyed by model.
query_models_parallel(ts) ==
    DictFromZip([i \in 1..Len(ts) |-> ts[i].model],
                [i \in 1..Len(ts) |-> ts[i].response], Len(ts))

\* ------------------------------------- openrouter.py: the request payload

\* Longest model name the payload builder is explored on, in pieces.
MaxNamePieces == 3

\* A model name is the sequence of its pieces, each a run of characters.
\* The pieces are chosen so that a name starts with "openai/" or with
\* "anthropic/claude-opus-", or contains "codex", in any spelling, only
\* through a piece that is that text.
NamePieces ==
    {"openai/", "OpenAI/", "anthropic/claude-opus-", "Anthropic/Claude-OPUS-",
     "anthropic/claude-sonnet-", "google/", "codex", "CODEX", "gpt-5.3-", "4.6"}

ModelIdentifiers == UNION {[1..n -> NamePieces] : n \in 1..MaxNamePieces}

\* str.lower() of one piece.
LowerPiece(p) ==
    CASE p = "OpenAI/" -> "openai/"
      [] p = "Anthropic/Claude-OPUS-" -> "anthropic/claude-opus-"
      [] p = "CODEX" -> "codex"
      [] OTHER -> p

\* model.lower()
lower(model) == [i \in 1..Len(model) |-> LowerPiece(model[i])]

\* s.startswith(prefix) and (word in s), for a prefix and a word that are
\* pieces.
startswith(s, prefix) == Len(s) >= 1 /\ s[1] = prefix

contains(s, word) == \E i \in 1..Len(s) : s[i] = word

\* model_requires_xhigh_reasoning without the lower(): a name spelt with
\* capitals is not recognised.
model_requires_xhigh_reasoning_case_sensitive(model) ==
    \/ startswith(model, "openai/") /\ contains(model, "codex")
    \/ startswith(model, "anthropic/claude-opus-")

model_requires_xhigh_reasoning(model) ==
    LET lower_model == lower(model)
        is_openai_codex == startswith(lower_model, "openai/") /\ contains(lower_model, "codex")
        is_anthropic_opus == startswith(lower_model, "anthropic/claude-opus-")
    IN is_openai_codex \/ is_anthropic_opus

\* The default of build_request_payload's max_tokens parameter, and a
\* value a caller sets instead.
PAYLOAD_MAX_TOKENS == 32768

MaxTokensValues == {PAYLOAD_MAX_TOKENS, 1024}

\* Message lists a payload is built from.
MessageLists ==
    {<<[role |-> "user", content |-> "test"]>>,
     <<[role |-> "system", content |-> "be brief"], [role |-> "user", content |-> "test"]>>}

\* build_request_payload: the payload dict; the key "reasoning" is added
\* for the models that require it.
build_request_payload(model, messages, max_tokens) ==
    IF model_requires_xhigh_reasoning(model)
    THEN [model |-> model, messages |-> messages, max_tokens |-> max_tokens,
          reasoning |-> [effort |-> "xhigh"]]
    ELSE [model |-> model, messages |-> messages, max_tokens |-> max_tokens]

\* ------------------------------------------------------- output, cli.py

\* Positional parameters show_stage1_complete declares after self
\* (results, total_models), and arguments on_stage_complete passes to it
\* (data).
show_stage1_complete_params == 2

show_stage1_complete_args == 1

\* Calling a Python function binds its arguments before its body runs: a
\* missing positional argument raises TypeError.
Call(given, required) == IF given = required THEN "returned" ELSE "TypeError"

\* on_stage_complete of cli.py (passed only when use_rich): what awaiting it
\* for a stage ends in.
on_stage_complete(stage) ==
    IF stage = "stage1"
    THEN Call(show_stage1_complete_args, show_stage1_complete_params)
    ELSE "returned"

\* The progress observers a run is started with: none, the CLI's, or one
\* that only records the stages it is told about.
Observers == {"none", "cli", "recording"}

\* What invoking the run's observer for a stage ends in.
InvokeObserver(obs, stage) == IF obs = "cli" THEN on_stage_complete(stage) ELSE "returned"

\* Flag and terminal combinations the command line is started with.
FlagSets ==
    [json_output : BOOLEAN, markdown_output : BOOLEAN, answer_only : BOOLEAN,
     stdout_is_tty : BOOLEAN]

\* The output mode main() determines from the flags.
use_json(f) ==
    f.json_output \/ (~f.stdout_is_tty /\ ~f.markdown_output /\ ~f.answer_only)

use_markdown(f) == f.markdown_output

use_answer_only(f) == f.answer_only

use_rich(f) == ~(use_json(f) \/ use_markdown(f) \/ use_answer_only(f)) /\ f.stdout_is_tty

\* on_stage_complete=on_stage_complete if use_rich else None
ObserverPassed(f) == IF use_rich(f) THEN "cli" ELSE "none"

\* The printing chain with the JSON branch tested first.
print_output_json_first(f) ==
    IF use_json(f) THEN <<"json">>
    ELSE IF use_answer_only(f) THEN <<"answer">>
    ELSE IF use_markdown(f) THEN <<"markdown">>
    ELSE << >>

\* "Format output for non-rich modes": what main() prints on stdout after
\* the run returned, as the sequence of output forms.
print_output(f) ==
    IF use_answer_only(f) THEN <<"answer">>
    ELSE IF use_json(f) THEN <<"json">>
    ELSE IF use_markdown(f) THEN <<"markdown">>
    ELSE << >>

\* Exit statuses: typer.Exit(130) of the KeyboardInterrupt handler; the
\* status of a command that ran to its end; the status Python gives a
\* command that ends in an uncaught exception.
EXIT_INTERRUPTED == 130

EXIT_OK == 0

EXIT_UNCAUGHT == 1

\* A KeyboardInterrupt handler that reports the interrupt and goes on to
\* the printing chain.
on_keyboard_interrupt_falls_through(f) ==
    [printed |-> print_output(f), exit_status |-> EXIT_OK]

\* except KeyboardInterrupt: "Interrupted" goes to stderr and the command
\* exits; nothing is printed on stdout.
on_keyboard_interrupt(f) == [printed |-> << >>, exit_status |-> EXIT_INTERRUPTED]

\* ------------------------------------------------------------- config.py

\* Model identifiers are opaque to the configuration: plain strings.
DEFAULT_COUNCIL_MODELS ==
    <<"openai/gpt-5.3-codex", "openai/gpt-5.2-pro", "google/gemini-3.1-pro-preview",
      "anthropic/claude-opus-4.6">>

DEFAULT_CHAIRMAN_MODEL == "anthropic/claude-opus-4.6"

DEFAULT_API_URL == "https://openrouter.ai/api/v1/chat/completions"

DEFAULT_TIMEOUT == 120

DEFAULT_MAX_TOKENS == 32768

\* An optional string (None or a str) and an optional list (None or a list).
NoStr == [is_none |-> TRUE, value |-> ""]

Str(v) == [is_none |-> FALSE, value |-> v]

NoList == [is_none |-> TRUE, value |-> << >>]

List(v) == [is_none |-> FALSE, value |-> v]

\* Python truth of an optional string and of an optional list: None, ''
\* and [] are false.
TruthyStr(o) == ~o.is_none /\ o.value # ""

TruthyList(o) == ~o.is_none /\ o.value # << >>

\* One key of the YAML mapping: whether the mapping has it, and its value.
NoKey(v) == [has |-> FALSE, value |-> v]

Key(v) == [has |-> TRUE, value |-> v]

\* A YAML scalar given for a numeric setting: a number, a string that is
\* the numeral of a number, a string that is no numeral, or null.
YamlNumber(n) == [type |-> "number", n |-> n]

YamlNumeral(n) == [type |-> "numeral", n |-> n]

YamlWord == [type |-> "word", n |-> 0]

YamlNull == [type |-> "null", n |-> 0]

\* The mappings a config file holds: each key absent or present; api_key
\* null, '' or a key; council_models null, [] or a list; chairman_model
\* null, '' or a name; timeout a number or a word; max_tokens a number, a
\* numeral or null.
ConfigData ==
    [api_key : {NoKey(NoStr), Key(NoStr), Key(Str("")), Key(Str("file-key"))},
     council_models : {NoKey(NoList), Key(NoList), Key(List(<< >>)),
                       Key(List(<<"custom/model-a", "custom/model-b">>))},
     chairman_model : {NoKey(NoStr), Key(NoStr), Key(Str("")), Key(Str("custom/chair"))},
     api_url : {NoKey(""), Key("https://example.test/v1")},
     timeout : {NoKey(YamlNull), Key(YamlNumber(30)), Key(YamlWord)},
     max_tokens : {NoKey(YamlNull), Key(YamlNumber(4096)), Key(YamlNumeral(2048)),
                   Key(YamlNull)}]

\* yaml.safe_load(f) or {}: the mapping of an empty file.
EmptyData ==
    [api_key |-> NoKey(NoStr), council_models |-> NoKey(NoList),
     chairman_model |-> NoKey(NoStr), api_url |-> NoKey(""), timeout |-> NoKey(YamlNull),
     max_tokens |-> NoKey(YamlNull)]

\* The file at config_path: missing, not YAML, or a mapping.
ConfigFiles ==
    {[exists |-> FALSE, valid_yaml |-> TRUE, data |-> EmptyData],
     [exists |-> TRUE, valid_yaml |-> FALSE, data |-> EmptyData]}
        \cup {[exists |-> TRUE, valid_yaml |-> TRUE, data |-> d] : d \in ConfigData}

\* What load_config runs on: the file, os.getenv("OPENROUTER_API_KEY")
\* after load_dotenv (unset, '' or a key), and the two overrides of the
\* command line.
ConfigInputs ==
    [file : ConfigFiles,
     OPENROUTER_API_KEY : {NoStr, Str(""), Str("env-key")},
     models_override : {NoList, List(<< >>), List(<<"cli/model-a", "cli/model-b">>)},
     chairman_override : {NoStr, Str(""), Str("cli/chair")}]

\* The value of a setting after the config file: the file's when the
\* mapping has the key, the built-in default otherwise.
from_file(entry, default) == IF entry.has THEN entry.value ELSE default

\* float(x) and int(x) of a YAML scalar: the number, the number a numeral
\* denotes, ValueError for any other string, TypeError for None.
to_number(x) ==
    IF x.type \in {"number", "numeral"} THEN [raised |-> "", n |-> x.n]
    ELSE IF x.type = "word" THEN [raised |-> "ValueError", n |-> 0]
    ELSE [raised |-> "TypeError", n |-> 0]

\* The exception that leaves the block reading the config file, or "":
\* len(council_models) of the log line after the assignment raises
\* TypeError for a null list; then float() of the timeout and int() of
\* max_tokens are evaluated, in that order.
file_block_raises(config_data) ==
    IF config_data.council_models.has /\ config_data.council_models.value.is_none
    THEN "TypeError"
    ELSE IF config_data.timeout.has /\ to_number(config_data.timeout.value).raised # ""
    THEN to_number(config_data.timeout.value).raised
    ELSE IF config_data.max_tokens.has
    THEN to_number(config_data.max_tokens.value).raised
    ELSE ""

\* "Environment variable overrides config file": if env_api_key: ...
api_key_after_env(file_api_key, env_api_key) ==
    IF TruthyStr(env_api_key) THEN env_api_key ELSE file_api_key

\* "CLI overrides everything": if models_override: ..., if
\* chairman_override: ...
models_after_cli(models, models_override) ==
    IF TruthyList(models_override) THEN models_override ELSE models

chairman_after_cli(chairman, chairman_override) ==
    IF TruthyStr(chairman_override) THEN chairman_override ELSE chairman

\* "Validate": the message of the ConfigError raised, or "valid".
validate(api_key, models, chairman) ==
    IF ~TruthyStr(api_key) THEN "API key required."
    ELSE IF ~TruthyList(models) THEN "At least one council model is required."
    ELSE IF ~TruthyStr(chairman) THEN "Chairman model is required."
    ELSE "valid"

\* What a load_config call ends in: a CouncilConfig; a ConfigError and no
\* configuration; or an exception that is no ConfigError, which main()
\* does not catch.
Uncaught(exception) ==
    [kind |-> exception, message |-> "", api_key |-> "", council_models |-> << >>,
     chairman_model |-> "", api_url |-> "", timeout |-> 0, max_tokens |-> 0]

ConfigError(message) ==
    [kind |-> "ConfigError", message |-> message, api_key |-> "", council_models |-> << >>,
     chairman_model |-> "", api_url |-> "", timeout |-> 0, max_tokens |-> 0]

CouncilConfig(api_key, models, chairman, api_url, timeout, max_tokens) ==
    [kind |-> "CouncilConfig", message |-> "", api_key |-> api_key,
     council_models |-> models, chairman_model |-> chairman,
     api_url |-> api_url, timeout |-> timeout, max_tokens |-> max_tokens]

\* load_config(config_path, models_override, chairman_override)
load_config(args) ==
    IF args.file.exists /\ ~args.file.valid_yaml THEN ConfigError("Invalid YAML")
    ELSE IF args.file.exists /\ file_block_raises(args.file.data) # ""
    THEN Uncaught(file_block_raises(args.file.data))
    ELSE
        LET config_data == IF args.file.exists THEN args.file.data ELSE EmptyData
            api_key ==
                api_key_after_env(from_file(config_data.api_key, NoStr),
                                  args.OPENROUTER_API_KEY)
            models ==
                models_after_cli(from_file(config_data.council_models,
                                           List(DEFAULT_COUNCIL_MODELS)),
                                 args.models_override)
            chairman ==
                chairman_after_cli(from_file(config_data.chairman_model,
                                             Str(DEFAULT_CHAIRMAN_MODEL)),
                                   args.chairman_override)
            api_url == from_file(config_data.api_url, DEFAULT_API_URL)
            timeout ==
                IF config_data.timeout.has THEN to_number(config_data.timeout.value).n
                ELSE DEFAULT_TIMEOUT
            max_tokens ==
                IF config_data.max_tokens.has THEN to_number(config_data.max_tokens.value).n
                ELSE DEFAULT_MAX_TOKENS
            verdict == validate(api_key, models, chairman)
        IN IF verdict # "valid" THEN ConfigError(verdict)
           ELSE CouncilConfig(api_key.value, models.value, chairman.value,
                              api_url, timeout, max_tokens)

\* ------------------------------------------- orchestrator: Stage 1, labels

StageNames == <<"stage1", "stage2", "stage3">>

\* Every non-empty council list of at most MaxCouncil models; a list may
\* name a model twice (--models a,a is passed on as it is).
AllCouncilLists == UNION {[1..n -> Models] : n \in 1..MaxCouncil}

NameNumber(m) == CHOOSE i \in 1..Len(ModelNames) : ModelNames[i] = m

\* Model identifiers are opaque, so the pipeline is explored on one list
\* of each shape: the lists whose models first occur in the order of
\* ModelNames.
FirstUse(c) ==
    \A i \in 1..Len(c) :
        \A k \in 1..(NameNumber(c[i]) - 1) : \E j \in 1..(i - 1) : c[j] = ModelNames[k]

CouncilLists == {c \in AllCouncilLists : FirstUse(c)}

Range(s) == {s[i] : i \in 1..Len(s)}

\* Position of a model in the council list (its first occurrence).
CouncilIndex(council, m) ==
    IF m \in Range(council)
    THEN CHOOSE i \in 1..Len(council) :
            council[i] = m /\ \A j \in 1..(i - 1) : council[j] # m
    ELSE Len(council) + 1

\* Stage-1 outcomes: one per entry of what the fan-out returned, in its
\* order: {model, response | absent, failed}.
StageOneOutcomes(results) ==
    [i \in 1..Len(results) |->
        [model |-> results[i].key,
         response |-> results[i].value.content,
         failed |-> results[i].value.none]]

NotFailed(o) == ~o.failed

\* The models with a successful Stage-1 outcome, in outcome order.
SuccessfulModels(outcomes) ==
    LET ok == SelectSeq(outcomes, NotFailed)
    IN [i \in 1..Len(ok) |-> ok[i].model]

\* All orders of the members of a sequence of distinct models: the label
\* orders a seed can produce.
LabelOrders(s) ==
    {p \in [1..Len(s) -> Range(s)] : \A m \in Range(s) : \E i \in 1..Len(s) : p[i] = m}

\* "Response 1" .. "Response N": the label of position k.
LabelNames == <<"Response 1", "Response 2", "Response 3", "Response 4", "Response 5">>

\* A word that reads as a label and is none of this run's.
UnknownLabel == "Response 9"

LabelLike(w) == w \in Range(LabelNames) \cup {UnknownLabel}

LabelNumber(w) == CHOOSE k \in 1..Len(LabelNames) : LabelNames[k] = w

\* ------------------------------------------- orchestrator: Stage 2 parsing

\* A parser that keeps a partial ranking: a missing label does not make
\* the submission invalid.
parse_ranking_keeps_partial(text, n) ==
    LET named == SelectSeq(text, LabelLike)
        known == {LabelNames[k] : k \in 1..n}
        unrecognized == \E i \in 1..Len(named) : named[i] \notin known
        duplicated == \E i, j \in 1..Len(named) : i < j /\ named[i] = named[j]
    IN IF unrecognized \/ duplicated
       THEN [valid |-> FALSE, order |-> << >>]
       ELSE [valid |-> TRUE, order |-> [i \in 1..Len(named) |-> LabelNumber(named[i])]]

\* The ranking parser: scan the text for label words in the order they
\* appear; the submission is valid when every known label is named exactly
\* once and nothing else that reads as a label is.  The result is a
\* complete order of label numbers or a parse failure.
parse_ranking(text, n) ==
    LET named == SelectSeq(text, LabelLike)
        known == {LabelNames[k] : k \in 1..n}
        unrecognized == \E i \in 1..Len(named) : named[i] \notin known
        duplicated == \E i, j \in 1..Len(named) : i < j /\ named[i] = named[j]
        missing == \E w \in known : \A i \in 1..Len(named) : named[i] # w
    IN IF unrecognized \/ duplicated \/ missing
       THEN [valid |-> FALSE, order |-> << >>]
       ELSE [valid |-> TRUE, order |-> [i \in 1..Len(named) |-> LabelNumber(named[i])]]

\* Stage-2 submissions: one per Stage-2 call that returned text.
StageTwoSubmissions(results, n) ==
    LET returned(r) == ~r.value.none
        texts == SelectSeq(results, returned)
    IN [i \in 1..Len(texts) |->
           [model |-> texts[i].key,
            ranking |-> texts[i].value.content,
            parsed |-> parse_ranking(texts[i].value.content, n)]]

\* --------------------------------------- orchestrator: Stage 2 aggregation

RECURSIVE SetSum(_)
SetSum(S) == IF S = {} THEN 0 ELSE LET x == CHOOSE y \in S : TRUE IN x + SetSum(S \ {x})

IsValid(sub) == sub.parsed.valid

RECURSIVE RankTotals(_, _, _)
\* For each labelled model, the sum and the number of its 1-indexed
\* positions in the first k valid submissions.
RankTotals(valid, l2m, k) ==
    IF k = 0 THEN [m \in Range(l2m) |-> [sum |-> 0, count |-> 0]]
    ELSE LET prev == RankTotals(valid, l2m, k - 1)
             order == valid[k].parsed.order
         IN [m \in Range(l2m) |->
                LET pos == {i \in 1..Len(order) : l2m[order[i]] = m}
                IN [sum |-> prev[m].sum + SetSum(pos),
                    count |-> prev[m].count + Cardinality(pos)]]

\* average_rank of a before that of b; average_rank = rank_sum / rank_count.
AverageLess(a, b) == a.rank_sum * b.rank_count < b.rank_sum * a.rank_count

\* A sort that is not stable: an entry goes before the entries of equal
\* average_rank.
InsertBeforeEqual(sorted, e) ==
    LET k == Cardinality({i \in 1..Len(sorted) : AverageLess(sorted[i], e)})
    IN SubSeq(sorted, 1, k) \o <<e>> \o SubSeq(sorted, k + 1, Len(sorted))

\* Insert e into a list sorted by average_rank, after the entries whose
\* average_rank is not greater.
InsertByAverage(sorted, e) ==
    LET k == Cardinality({i \in 1..Len(sorted) : ~AverageLess(e, sorted[i])})
    IN SubSeq(sorted, 1, k) \o <<e>> \o SubSeq(sorted, k + 1, Len(sorted))

RECURSIVE SortByAverage(_, _)
SortByAverage(entries, n) ==
    IF n = 0 THEN << >>
    ELSE InsertByAverage(SortByAverage(entries, n - 1), entries[n])

\* The aggregate ranking: an entry for every model named in a valid
\* submission, taken in council-list order and sorted ascending by
\* average_rank, so that ties keep council-list order.
calculate_aggregate_rankings(submissions, l2m, council) ==
    LET valid == SelectSeq(submissions, IsValid)
        totals == RankTotals(valid, l2m, Len(valid))
        first(i) == council[i] \in Range(l2m) /\ CouncilIndex(council, council[i]) = i
        ranked == {i \in 1..Len(council) : first(i) /\ totals[council[i]].count > 0}
        nth(k) == CHOOSE i \in ranked : Cardinality({j \in ranked : j < i}) = k - 1
        entries == [k \in 1..Cardinality(ranked) |->
                       [model |-> council[nth(k)],
                        rank_sum |-> totals[council[nth(k)]].sum,
                        rank_count |-> totals[council[nth(k)]].count]]
    IN SortByAverage(entries, Len(entries))

\* ------------------------------------------------- what a model may answer

AnswerTexts == {<<"answer">>}

FinalTexts == {<<"final">>}

IdentityRanking(n) == [k \in 1..n |-> LabelNames[k]]

\* Rankings that do not parse: a label missing, a label twice, a label
\* that is none of the run's.
InvalidRankingTexts(n) ==
    {SubSeq(IdentityRanking(n), 1, n - 1),
     IdentityRanking(n) \o <<LabelNames[1]>>,
     <<"Ranking:">> \o SubSeq(IdentityRanking(n), 1, n - 1) \o <<UnknownLabel>>}

\* Every complete ranking of n labels, written between other words.
ValidRankingTexts(n) ==
    {<<"Ranking:">> \o [k \in 1..n |-> LabelNames[p[k]]] \o <<"done">> :
        p \in {q \in [1..n -> 1..n] : \A k \in 1..n : \E i \in 1..n : q[i] = k}}

\* Reviewer answers of the pipeline specification: two complete rankings
\* and the rankings that do not parse.
ReviewTexts(n) ==
    {IdentityRanking(n),
     <<"Ranking:">> \o [k \in 1..n |-> LabelNames[n + 1 - k]] \o <<"done">>}
        \cup InvalidRankingTexts(n)

\* Reviewer answers of the aggregation specification.
RankingTexts(n) == ValidRankingTexts(n) \cup InvalidRankingTexts(n)

\* ------------------------------------------------------------------ state

VARIABLES
    council_models,      \* the council list of the run, in input order
    observer,            \* the progress observer the run was started with
    phase,               \* where the run is in its state machine
    tasks,               \* the tasks of the fan-out in progress
    dispatched,          \* requests sent so far, per stage
    settled,             \* requests settled so far, per stage
    stage1,              \* Stage-1 outcomes
    label_to_model,      \* the label assignment: label k is label_to_model[k]
    stage2,              \* Stage-2 submissions
    aggregate_rankings,  \* the aggregate ranking
    chairman_task,       \* the chairman's request
    notified,            \* the stages the observer was invoked for, in order
    result,              \* what the run hands to its caller
    stage1_calls,        \* history: the Stage-1 tasks as they were at the join
    flags,               \* cli.py: the format flags and whether stdout is a terminal
    stdout,              \* cli.py: the output forms printed on stdout, in order
    exit_status,         \* cli.py: << >>, or the one status the command exited with
    env,                 \* config.py: the config file, environment and overrides
    config,              \* config.py: what load_config ended in
    request              \* openrouter.py: a build_request_payload call and its payload

vars == <<council_models, observer, phase, tasks, dispatched, settled, stage1,
          label_to_model, stage2, aggregate_rankings, chairman_task, notified, result,
          stage1_calls, flags, stdout, exit_status, env, config, request>>

Stages == 1..3

\* The state of the command around the run, the configuration loader and
\* the payload builder: the run itself leaves it alone.
outer == <<flags, stdout, exit_status, env, config, request>>

\* The state of the run.
run == <<council_models, observer, phase, tasks, dispatched, settled, stage1,
         label_to_model, stage2, aggregate_rankings, chairman_task, notified, result,
         stage1_calls>>

\* The flags when the orchestrator is called directly.
NoFlags ==
    [json_output |-> FALSE, markdown_output |-> FALSE, answer_only |-> FALSE,
     stdout_is_tty |-> FALSE]

\* No load_config call, and no build_request_payload call, yet.
NoInputs ==
    [file |-> [exists |-> FALSE, valid_yaml |-> TRUE, data |-> EmptyData],
     OPENROUTER_API_KEY |-> NoStr, models_override |-> NoList, chairman_override |-> NoStr]

NotLoaded ==
    [kind |-> "NotLoaded", message |-> "", api_key |-> "", council_models |-> << >>,
     chairman_model |-> "", api_url |-> "", timeout |-> 0, max_tokens |-> 0]

NoRequest == [called |-> FALSE]

OuterIdle ==
    /\ flags = NoFlags
    /\ stdout = << >>
    /\ exit_status = << >>
    /\ env = NoInputs
    /\ config = NotLoaded
    /\ request = NoRequest

InFlight(s) == dispatched[s] - settled[s]

\* The bundle handed to the caller: a DeliberationResult, or a fatal
\* condition with the stage data gathered so far; chairman holds the
\* ChairmanOutcome when there is one.
Bundle(kind, chairman) ==
    [kind |-> kind, stage1 |-> stage1, stage2 |-> stage2,
     aggregate_rankings |-> aggregate_rankings, label_to_model |-> label_to_model,
     chairman |-> chairman]

Pending == [kind |-> "Pending", stage1 |-> << >>, stage2 |-> << >>,
            aggregate_rankings |-> << >>, label_to_model |-> << >>, chairman |-> << >>]

Init ==
    /\ council_models \in CouncilLists
    /\ observer \in Observers
    /\ phase = "Idle"
    /\ tasks = << >>
    /\ dispatched = [s \in Stages |-> 0]
    /\ settled = [s \in Stages |-> 0]
    /\ stage1 = << >>
    /\ label_to_model = << >>
    /\ stage2 = << >>
    /\ aggregate_rankings = << >>
    /\ chairman_task = Task(chairman_model)
    /\ notified = << >>
    /\ result = Pending
    /\ stage1_calls = << >>
    /\ OuterIdle

\* ---------------------------------------------------------------- Stage 1

\* Stage 1 fans the query out: one request per entry of the council list.
StartStage1 ==
    /\ phase = "Idle"
    /\ phase' = "Stage1Running"
    /\ tasks' = CreateTasks(council_models)
    /\ dispatched' = [dispatched EXCEPT ![1] = @ + Len(council_models)]
    /\ UNCHANGED <<outer, stage1_calls, council_models, observer, settled, stage1, label_to_model, stage2,
                   aggregate_rankings, chairman_task, notified, result>>

\* One request of the fan-out of stage s settles: query_model returns.
SettleTask(s, i, ev) ==
    /\ i \in 1..Len(tasks)
    /\ ~tasks[i].done
    /\ tasks' = [tasks EXCEPT ![i] = [model |-> tasks[i].model, done |-> TRUE,
                                      net_ok |-> NetOk(ev), response |-> query_model(ev)]]
    /\ settled' = [settled EXCEPT ![s] = @ + 1]
    /\ UNCHANGED <<outer, stage1_calls, council_models, observer, phase, dispatched, stage1, label_to_model,
                   stage2, aggregate_rankings, chairman_task, notified, result>>

Stage1Settle ==
    /\ phase = "Stage1Running"
    /\ \E i \in 1..Len(tasks) : \E ev \in NetEvents(AnswerTexts) : SettleTask(1, i, ev)

\* The join of Stage 1: query_models_parallel returns and its results
\* become the Stage-1 outcomes.
Stage1Join ==
    /\ phase = "Stage1Running"
    /\ GatherReturns(tasks)
    /\ stage1' = StageOneOutcomes(query_models_parallel(tasks))
    /\ stage1_calls' = tasks
    /\ tasks' = << >>
    /\ phase' = "Stage1Settled"
    /\ UNCHANGED <<outer, council_models, observer, dispatched, settled, label_to_model, stage2,
                   aggregate_rankings, chairman_task, notified, result>>

\* No model answered: the fatal condition NoResponses.
AbortNoResponses ==
    /\ phase = "Stage1Settled"
    /\ SuccessfulModels(stage1) = << >>
    /\ phase' = "AbortedNoResponses"
    /\ result' = Bundle("NoResponses", << >>)
    /\ UNCHANGED <<outer, stage1_calls, council_models, observer, tasks, dispatched, settled, stage1,
                   label_to_model, stage2, aggregate_rankings, chairman_task, notified>>

\* The observer is invoked for stage k; an observer that raises ends the
\* run in a fatal orchestration error.
Notify(k) ==
    /\ observer # "none"
    /\ Len(notified) = k - 1
    /\ notified' = Append(notified, StageNames[k])
    /\ IF InvokeObserver(observer, StageNames[k]) = "returned"
       THEN UNCHANGED <<phase, result>>
       ELSE /\ phase' = "Crashed"
            /\ result' = Bundle("ObserverError", << >>)
    /\ UNCHANGED <<outer, stage1_calls, council_models, observer, tasks, dispatched, settled, stage1,
                   label_to_model, stage2, aggregate_rankings, chairman_task>>

Notified(k) == observer = "none" \/ Len(notified) >= k

NotifyStage1 ==
    /\ phase = "Stage1Settled"
    /\ SuccessfulModels(stage1) # << >>
    /\ Notify(1)

\* ---------------------------------------------------------------- Stage 2

\* The Anonymizer assigns the labels, and Stage 2 sends the review prompt
\* to every model that answered in Stage 1.
StartStage2 ==
    /\ phase = "Stage1Settled"
    /\ SuccessfulModels(stage1) # << >>
    /\ Notified(1)
    /\ \E order \in LabelOrders(SuccessfulModels(stage1)) : label_to_model' = order
    /\ tasks' = CreateTasks(SuccessfulModels(stage1))
    /\ dispatched' = [dispatched EXCEPT ![2] = @ + Len(SuccessfulModels(stage1))]
    /\ phase' = "Stage2Running"
    /\ UNCHANGED <<outer, stage1_calls, council_models, observer, settled, stage1, stage2, aggregate_rankings,
                   chairman_task, notified, result>>

Stage2Settle ==
    /\ phase = "Stage2Running"
    /\ \E i \in 1..Len(tasks) :
          \E ev \in NetEvents(ReviewTexts(Len(label_to_model))) \cup {NullContent} :
             SettleTask(2, i, ev)

\* The join of Stage 2: the reviewers' texts are parsed and aggregated.
Stage2Join ==
    /\ phase = "Stage2Running"
    /\ GatherReturns(tasks)
    /\ LET subs == StageTwoSubmissions(query_models_parallel(tasks), Len(label_to_model))
       IN /\ stage2' = subs
          /\ aggregate_rankings' =
                calculate_aggregate_rankings(subs, label_to_model, council_models)
    /\ tasks' = << >>
    /\ phase' = "Stage2Settled"
    /\ UNCHANGED <<outer, stage1_calls, council_models, observer, dispatched, settled, stage1, label_to_model,
                   chairman_task, notified, result>>

NotifyStage2 ==
    /\ phase = "Stage2Settled"
    /\ Notify(2)

\* ---------------------------------------------------------------- Stage 3

\* Stage 3 sends its one request to the chairman.
StartStage3 ==
    /\ phase = "Stage2Settled"
    /\ Notified(2)
    /\ chairman_task' = Task(chairman_model)
    /\ dispatched' = [dispatched EXCEPT ![3] = @ + 1]
    /\ phase' = "Stage3Running"
    /\ UNCHANGED <<outer, stage1_calls, council_models, observer, tasks, settled, stage1, label_to_model,
                   stage2, aggregate_rankings, notified, result>>

\* The chairman's request settles.
ChairmanSettle ==
    /\ phase = "Stage3Running"
    /\ ~chairman_task.done
    /\ \E ev \in NetEvents(FinalTexts) \cup {NullContent} :
          chairman_task' = [model |-> chairman_model, done |-> TRUE,
                            net_ok |-> NetOk(ev), response |-> query_model(ev)]
    /\ settled' = [settled EXCEPT ![3] = @ + 1]
    /\ UNCHANGED <<outer, stage1_calls, council_models, observer, phase, tasks, dispatched, stage1,
                   label_to_model, stage2, aggregate_rankings, notified, result>>

\* The chairman's call failed: the fatal condition SynthesisFailed; the
\* caller gets the stage data and no ChairmanOutcome.
AbortSynthesisFailed ==
    /\ phase = "Stage3Running"
    /\ chairman_task.done
    /\ chairman_task.response.none
    /\ phase' = "AbortedSynthesisFailed"
    /\ result' = Bundle("SynthesisFailed", << >>)
    /\ UNCHANGED <<outer, stage1_calls, council_models, observer, tasks, dispatched, settled, stage1,
                   label_to_model, stage2, aggregate_rankings, chairman_task, notified>>

NotifyStage3 ==
    /\ phase = "Stage3Running"
    /\ chairman_task.done
    /\ ~chairman_task.response.none
    /\ Notify(3)

\* The run returns its DeliberationResult.
Complete ==
    /\ phase = "Stage3Running"
    /\ chairman_task.done
    /\ ~chairman_task.response.none
    /\ Notified(3)
    /\ phase' = "Complete"
    /\ result' = Bundle("DeliberationResult",
                        <<[model |-> chairman_model,
                           response |-> chairman_task.response.content]>>)
    /\ UNCHANGED <<outer, stage1_calls, council_models, observer, tasks, dispatched, settled, stage1,
                   label_to_model, stage2, aggregate_rankings, chairman_task, notified>>

Next ==
    \/ StartStage1
    \/ Stage1Settle
    \/ Stage1Join
    \/ AbortNoResponses
    \/ NotifyStage1
    \/ StartStage2
    \/ Stage2Settle
    \/ Stage2Join
    \/ NotifyStage2
    \/ StartStage3
    \/ ChairmanSettle
    \/ AbortSynthesisFailed
    \/ NotifyStage3
    \/ Complete

Spec == Init /\ [][Next]_vars

\* ------------------------------------------------ aggregation on its own

\* Stage-1 outcomes of a council of which the models in F failed.
OutcomesWithFailures(council, F) ==
    LET firsts == {i \in 1..Len(council) : CouncilIndex(council, council[i]) = i}
        nth(k) == CHOOSE i \in firsts : Cardinality({j \in firsts : j < i}) = k - 1
    IN [k \in 1..Cardinality(firsts) |->
           [model |-> council[nth(k)],
            response |-> IF council[nth(k)] \in F THEN EmptyText ELSE <<"answer">>,
            failed |-> council[nth(k)] \in F]]

\* The parser and the aggregation applied to any labelling and any
\* reviewer texts: a settled Stage 1 with at least one answer, a label
\* order, and then one submission after another.
InitAgg ==
    /\ council_models \in AllCouncilLists
    /\ observer = "none"
    /\ phase = "Collecting"
    /\ tasks = << >>
    /\ dispatched = [s \in Stages |-> 0]
    /\ settled = [s \in Stages |-> 0]
    /\ stage1 \in {OutcomesWithFailures(council_models, F) :
                      F \in (SUBSET Range(council_models)) \ {Range(council_models)}}
    /\ label_to_model \in LabelOrders(SuccessfulModels(stage1))
    /\ stage2 = << >>
    /\ aggregate_rankings = << >>
    /\ chairman_task = Task(chairman_model)
    /\ notified = << >>
    /\ result = Pending
    /\ stage1_calls = << >>
    /\ OuterIdle

\* The next reviewer's text is parsed into a submission.
Submit ==
    /\ phase = "Collecting"
    /\ Len(stage2) < Len(label_to_model)
    /\ \E text \in RankingTexts(Len(label_to_model)) :
          stage2' = Append(stage2,
                           [model |-> SuccessfulModels(stage1)[Len(stage2) + 1],
                            ranking |-> text,
                            parsed |-> parse_ranking(text, Len(label_to_model))])
    /\ UNCHANGED <<outer, stage1_calls, council_models, observer, phase, tasks, dispatched,
                   settled, stage1, label_to_model, aggregate_rankings, chairman_task,
                   notified, result>>

\* The submissions gathered so far are aggregated.
Aggregate ==
    /\ phase = "Collecting"
    /\ aggregate_rankings' =
          calculate_aggregate_rankings(stage2, label_to_model, council_models)
    /\ phase' = "Aggregated"
    /\ UNCHANGED <<outer, stage1_calls, council_models, observer, tasks, dispatched, settled,
                   stage1, label_to_model, stage2, chairman_task, notified, result>>

NextAgg == Submit \/ Aggregate

SpecAgg == InitAgg /\ [][NextAgg]_vars

\* ------------------------------------------------------ the command line

\* The council of the explored command-line runs.
CliCouncil == <<ModelNames[1], ModelNames[2]>>

\* main() has loaded its configuration and determined its output mode:
\* the run is about to start, with on_stage_complete as its observer in
\* rich mode and no observer otherwise.
InitCli ==
    /\ flags \in FlagSets
    /\ council_models = CliCouncil
    /\ observer = ObserverPassed(flags)
    /\ phase = "Idle"
    /\ tasks = << >>
    /\ dispatched = [s \in Stages |-> 0]
    /\ settled = [s \in Stages |-> 0]
    /\ stage1 = << >>
    /\ label_to_model = << >>
    /\ stage2 = << >>
    /\ aggregate_rankings = << >>
    /\ chairman_task = Task(chairman_model)
    /\ notified = << >>
    /\ result = Pending
    /\ stage1_calls = << >>
    /\ stdout = << >>
    /\ exit_status = << >>
    /\ env = NoInputs
    /\ config = NotLoaded
    /\ request = NoRequest

\* asyncio.run(run()) has not returned or raised yet.
RunInProgress ==
    phase \in {"Idle", "Stage1Running", "Stage1Settled", "Stage2Running", "Stage2Settled",
               "Stage3Running"}

\* An interrupt arrives while the run is in progress: KeyboardInterrupt
\* leaves asyncio.run, no stage data is bound in main(), and the handler
\* ends the command.
Interrupt ==
    /\ exit_status = << >>
    /\ RunInProgress
    /\ phase' = "Cancelled"
    /\ result' = [Pending EXCEPT !.kind = "Cancelled"]
    /\ stdout' = stdout \o on_keyboard_interrupt(flags).printed
    /\ exit_status' = <<on_keyboard_interrupt(flags).exit_status>>
    /\ UNCHANGED <<flags, env, config, request, council_models, observer, tasks, dispatched,
                   settled, stage1, label_to_model, stage2, aggregate_rankings,
                   chairman_task, notified, stage1_calls>>

\* The run returned its stage data: main() prints the form of its output
\* mode on stdout and ends.
PrintOutput ==
    /\ exit_status = << >>
    /\ phase = "Complete"
    /\ stdout' = stdout \o print_output(flags)
    /\ exit_status' = <<EXIT_OK>>
    /\ UNCHANGED <<flags, env, config, request, run>>

\* The run ended in a fatal condition or in the observer's exception:
\* main() has no handler for it, and the command ends without printing.
ExitUncaught ==
    /\ exit_status = << >>
    /\ phase \in {"AbortedNoResponses", "AbortedSynthesisFailed", "Crashed"}
    /\ exit_status' = <<EXIT_UNCAUGHT>>
    /\ UNCHANGED <<flags, stdout, env, config, request, run>>

\* The run as the command line starts it.  Its observer, when there is
\* one, is on_stage_complete, which does not return from "stage1": the
\* observer is never invoked for the later stages.
NextCli ==
    \/ StartStage1
    \/ Stage1Settle
    \/ Stage1Join
    \/ AbortNoResponses
    \/ NotifyStage1
    \/ StartStage2
    \/ Stage2Settle
    \/ Stage2Join
    \/ StartStage3
    \/ ChairmanSettle
    \/ AbortSynthesisFailed
    \/ Complete
    \/ Interrupt
    \/ PrintOutput
    \/ ExitUncaught

SpecCli == InitCli /\ [][NextCli]_vars

\* ----------------------------------- the payload builder and load_config

\* No run: the orchestrator has not been called.
RunIdle ==
    /\ council_models = << >>
    /\ observer = "none"
    /\ phase = "Idle"
    /\ tasks = << >>
    /\ dispatched = [s \in Stages |-> 0]
    /\ settled = [s \in Stages |-> 0]
    /\ stage1 = << >>
    /\ label_to_model = << >>
    /\ stage2 = << >>
    /\ aggregate_rankings = << >>
    /\ chairman_task = Task(chairman_model)
    /\ notified = << >>
    /\ result = Pending
    /\ stage1_calls = << >>

InitPayload == RunIdle /\ OuterIdle

\* A call build_request_payload(model, messages, max_tokens): the
\* arguments and the payload returned.
BuildPayload ==
    /\ ~request.called
    /\ \E model \in ModelIdentifiers, messages \in MessageLists, max_tokens \in MaxTokensValues :
          request' = [called |-> TRUE, model |-> model, messages |-> messages,
                      max_tokens |-> max_tokens,
                      payload |-> build_request_payload(model, messages, max_tokens)]
    /\ UNCHANGED <<run, flags, stdout, exit_status, env, config>>

NextPayload == BuildPayload

SpecPayload == InitPayload /\ [][NextPayload]_vars

\* load_config is about to be called on some file, environment and
\* overrides.
InitConfig ==
    /\ RunIdle
    /\ flags = NoFlags
    /\ stdout = << >>
    /\ exit_status = << >>
    /\ env \in ConfigInputs
    /\ config = NotLoaded
    /\ request = NoRequest

\* The call of load_config returns a CouncilConfig or raises ConfigError.
LoadConfig ==
    /\ config.kind = "NotLoaded"
    /\ config' = load_config(env)
    /\ UNCHANGED <<run, flags, stdout, exit_status, env, request>>

NextConfig == LoadConfig

SpecConfig == InitConfig /\ [][NextConfig]_vars

\* ----------------------------------------------------------------- claims

Stage1HasSettled == phase \notin {"Idle", "Stage1Running", "Collecting", "Aggregated"}

AllModelsDistinct(c) == \A i, j \in 1..Len(c) : i # j => c[i] # c[j]

\* C1: for every non-empty council list, once Stage 1 has joined there are
\* as many Stage-1 outcomes as requested models and the i-th outcome is
\* that of the i-th model of the list, whichever calls failed and in
\* whatever order they settled.
C1_OutcomePerRequestedModel ==
    Stage1HasSettled =>
        /\ Len(stage1) = Len(council_models)
        /\ \A i \in 1..Len(council_models) : stage1[i].model = council_models[i]

\* The same for council lists that name no model twice (this holds).
C1_OutcomePerDistinctModel ==
    (Stage1HasSettled /\ AllModelsDistinct(council_models)) =>
        /\ Len(stage1) = Len(council_models)
        /\ \A i \in 1..Len(council_models) : stage1[i].model = council_models[i]

\* C2: the stages are entered in the order Stage 1, Stage 2, Stage 3: a
\* Stage-2 request is dispatched only when every Stage-1 request has
\* settled, and the chairman's request only when every Stage-2 request has.
C2_StrictStageOrder ==
    /\ dispatched[2] > 0 =>
          /\ dispatched[1] = Len(council_models)
          /\ settled[1] = dispatched[1]
    /\ dispatched[3] > 0 =>
          /\ dispatched[2] > 0
          /\ settled[2] = dispatched[2]
          /\ settled[1] = dispatched[1]
    /\ phase \in {"Stage2Running", "Stage2Settled"} => dispatched[2] > 0
    /\ phase \in {"Stage3Running", "Complete", "AbortedSynthesisFailed"} => dispatched[3] > 0

C2_Witness ==
    /\ phase = "Stage3Running"
    /\ AllModelsDistinct(council_models)
    /\ dispatched[1] = 3
    /\ dispatched[2] = 2
    /\ InFlight(3) = 1

\* Every Stage-1 call of the run has settled and none was answered.
EveryStage1CallFailed ==
    /\ Stage1HasSettled
    /\ \A i \in 1..Len(stage1_calls) : ~stage1_calls[i].net_ok

NoSuccessfulOutcome == \A i \in 1..Len(stage1) : stage1[i].failed

C3_State ==
    /\ EveryStage1CallFailed =>
          /\ phase \in {"Stage1Settled", "AbortedNoResponses"}
          /\ dispatched[2] = 0
          /\ dispatched[3] = 0
          /\ dispatched[1] = Len(council_models)
    /\ phase = "AbortedNoResponses" =>
          /\ result.kind = "NoResponses"
          /\ NoSuccessfulOutcome
          /\ stage1 # << >>

C3_Step ==
    /\ (phase = "Stage1Settled" /\ EveryStage1CallFailed /\ phase' # phase)
          => phase' = "AbortedNoResponses"
    /\ (phase' = "AbortedNoResponses" /\ phase # phase')
          => (phase = "Stage1Settled" /\ NoSuccessfulOutcome)

\* C3: when every Stage-1 call fails, the run can only end in
\* Aborted(NoResponses) and sends no Stage-2 or Stage-3 request;
\* Aborted(NoResponses) is entered only from Stage1Settled with no
\* successful outcome.
C3_AllFailedAborts == [](C3_State) /\ [][C3_Step]_vars

C3_Witness ==
    /\ phase = "AbortedNoResponses"
    /\ council_models = <<"A", "B">>
    /\ Len(stage1_calls) = 2
    /\ EveryStage1CallFailed
    /\ dispatched = [s \in Stages |-> IF s = 1 THEN 2 ELSE 0]

ChairmanCallFailed == chairman_task.done /\ ~chairman_task.net_ok

C4_State ==
    /\ ChairmanCallFailed =>
          /\ phase \in {"Stage3Running", "AbortedSynthesisFailed"}
          /\ result.chairman = << >>
    /\ phase = "AbortedSynthesisFailed" =>
          /\ ChairmanCallFailed
          /\ result.kind = "SynthesisFailed"
          /\ result.chairman = << >>
          /\ result.stage1 = stage1 /\ ~NoSuccessfulOutcome
          /\ result.stage2 = stage2
          /\ result.aggregate_rankings = aggregate_rankings
          /\ result.label_to_model = label_to_model

C4_Step ==
    /\ (phase = "Stage3Running" /\ ChairmanCallFailed /\ phase' # phase)
          => phase' = "AbortedSynthesisFailed"
    /\ (phase' = "AbortedSynthesisFailed" /\ phase # phase')
          => (phase = "Stage3Running" /\ chairman_task.done)

\* C4: when the chairman's call fails the run can only end in
\* Aborted(SynthesisFailed): the caller gets no ChairmanOutcome, and gets
\* the Stage-1 outcomes, the Stage-2 submissions and the aggregate of the
\* run; Aborted(SynthesisFailed) is entered only from Stage3Running, once
\* the chairman's call has settled.
C4_ChairmanFailureAborts == [](C4_State) /\ [][C4_Step]_vars

C4_Witness ==
    /\ phase = "AbortedSynthesisFailed"
    /\ ChairmanCallFailed
    /\ Len(result.stage1) = 3
    /\ Len(result.stage2) = 2
    /\ Len(result.aggregate_rankings) = 2

FanOutRunning == phase \in {"Stage1Running", "Stage2Running"}

C5_State ==
    FanOutRunning =>
        \A i \in 1..Len(tasks) :
            /\ tasks[i].done => (tasks[i].response.none <=> ~tasks[i].net_ok)
            /\ ~tasks[i].done => tasks[i].response = None

\* A step of a running fan-out settles one call and leaves the others as
\* they were, and the fan-out is left only when every call has settled.
C5_SettleAndJoin ==
    /\ (FanOutRunning /\ phase' = phase /\ tasks' # tasks) =>
          /\ Len(tasks') = Len(tasks)
          /\ \E i \in 1..Len(tasks) :
                /\ ~tasks[i].done /\ tasks'[i].done
                /\ \A j \in 1..Len(tasks) : j # i => tasks'[j] = tasks[j]
    /\ (FanOutRunning /\ phase' # phase) =>
          \A i \in 1..Len(tasks) : tasks[i].done

\* What the fan-out returns records every call: its model is recorded as
\* failed exactly when the call failed, whatever its siblings did.
C5_Step ==
    /\ C5_SettleAndJoin
    /\ (phase = "Stage1Running" /\ phase' # phase) =>
          \A i \in 1..Len(tasks) :
              \E k \in 1..Len(stage1') :
                  /\ stage1'[k].model = tasks[i].model
                  /\ stage1'[k].failed <=> ~tasks[i].net_ok

\* C5: within a fan-out each call settles on its own as a response or as
\* None; a call that fails (error status, timeout, transport error,
\* malformed payload) is recorded as failed for its model and changes no
\* other call's outcome, and the fan-out returns only when every call has
\* settled.
C5_IndependentCallsAndJoin == [](C5_State) /\ [][C5_Step]_vars

\* The same, where the record of a model is compared with the last call
\* made to that model only (this holds).
C5_StepLastCall ==
    /\ C5_SettleAndJoin
    /\ (phase = "Stage1Running" /\ phase' # phase) =>
          \A i \in 1..Len(tasks) :
              (\A j \in (i + 1)..Len(tasks) : tasks[j].model # tasks[i].model) =>
                  \E k \in 1..Len(stage1') :
                      /\ stage1'[k].model = tasks[i].model
                      /\ stage1'[k].failed <=> ~tasks[i].net_ok

C5_LastCallRecordedAndJoin == [](C5_State) /\ [][C5_StepLastCall]_vars

LabelsAssigned == dispatched[2] > 0

\* Some Stage-1 call to the model was answered.
ModelAnswered(m) ==
    \E i \in 1..Len(stage1_calls) : stage1_calls[i].model = m /\ stage1_calls[i].net_ok

C6_State ==
    LabelsAssigned =>
        /\ Range(label_to_model) = {stage1[i].model : i \in {j \in 1..Len(stage1) : ~stage1[j].failed}}
        /\ \A i, j \in 1..Len(label_to_model) : i # j => label_to_model[i] # label_to_model[j]
        /\ \A k \in 1..Len(label_to_model) : ModelAnswered(label_to_model[k])
        /\ \A i \in 1..Len(stage1) :
              stage1[i].failed => \A k \in 1..Len(label_to_model) : label_to_model[k] # stage1[i].model

\* C6: once the Anonymizer has run, the label assignment is a bijection
\* between the labels and the models with a successful Stage-1 outcome: no
\* model has two labels, no failed model has one, and the assignment never
\* changes.
C6_LabelBijection ==
    [](C6_State) /\ [][LabelsAssigned => label_to_model' = label_to_model]_vars

C6_Witness ==
    /\ phase = "Stage2Running"
    /\ Len(stage1) = 3
    /\ stage1[2].failed
    /\ label_to_model = <<stage1[3].model, stage1[1].model>>

ValidSubmissions == {k \in 1..Len(stage2) : stage2[k].parsed.valid}

RankedModel(k, i) == label_to_model[stage2[k].parsed.order[i]]

NamedIn(m, k) == \E i \in 1..Len(stage2[k].parsed.order) : RankedModel(k, i) = m

\* The models named in at least one valid submission.
NamedModels == {m \in Range(label_to_model) : \E k \in ValidSubmissions : NamedIn(m, k)}

PositionIn(m, k) == CHOOSE i \in 1..Len(stage2[k].parsed.order) : RankedModel(k, i) = m

RECURSIVE PositionSum(_, _)
PositionSum(m, K) ==
    IF K = {} THEN 0
    ELSE LET k == CHOOSE x \in K : TRUE IN PositionIn(m, k) + PositionSum(m, K \ {k})

SameAverage(a, b) == a.rank_sum * b.rank_count = b.rank_sum * a.rank_count

\* C7: the aggregate ranking holds exactly the models named in at least
\* one valid submission, each with the mean of its 1-indexed positions
\* over the valid submissions naming it (rank_sum / rank_count), sorted
\* non-decreasing by that mean, ties in council-list order.
C7_AggregateIsReference ==
    phase = "Aggregated" =>
        LET agg == aggregate_rankings
        IN /\ {agg[i].model : i \in 1..Len(agg)} = NamedModels
           /\ Len(agg) = Cardinality(NamedModels)
           /\ \A i \in 1..Len(agg) :
                 LET K == {k \in ValidSubmissions : NamedIn(agg[i].model, k)}
                 IN /\ agg[i].rank_count = Cardinality(K)
                    /\ agg[i].rank_count > 0
                    /\ agg[i].rank_sum = PositionSum(agg[i].model, K)
           /\ \A i, j \in 1..Len(agg) : i < j =>
                 /\ ~AverageLess(agg[j], agg[i])
                 /\ SameAverage(agg[i], agg[j]) =>
                       CouncilIndex(council_models, agg[i].model)
                           < CouncilIndex(council_models, agg[j].model)

\* Council [A, B, C], labels B = Response 1, A = Response 2, C = Response 3,
\* one valid submission ranking Response 1, 2, 3 and two that do not
\* parse: the aggregate is B (1), A (2), C (3).
C7_Witness ==
    /\ phase = "Aggregated"
    /\ council_models = <<"A", "B", "C">>
    /\ label_to_model = <<"B", "A", "C">>
    /\ Len(stage2) = 3
    /\ ValidSubmissions = {2}
    /\ stage2[2].parsed.order = <<1, 2, 3>>
    /\ aggregate_rankings = <<[model |-> "B", rank_sum |-> 1, rank_count |-> 1],
                              [model |-> "A", rank_sum |-> 2, rank_count |-> 1],
                              [model |-> "C", rank_sum |-> 3, rank_count |-> 1]>>

\* The text names every one of the n known labels exactly once and nothing
\* else that reads as a label.
NamesEveryLabelOnce(text, n) ==
    /\ \A k \in 1..n : Cardinality({i \in 1..Len(text) : text[i] = LabelNames[k]}) = 1
    /\ \A i \in 1..Len(text) : LabelLike(text[i]) => \E k \in 1..n : text[i] = LabelNames[k]

Stage2HasSettled ==
    phase \in {"Stage2Settled", "Stage3Running", "Complete", "AbortedSynthesisFailed"}

C8_State ==
    Stage2HasSettled =>
        LET n == Len(label_to_model)
        IN /\ \A k \in 1..Len(stage2) :
                 /\ stage2[k].parsed.valid <=> NamesEveryLabelOnce(stage2[k].ranking, n)
                 /\ stage2[k].parsed.valid =>
                       /\ Len(stage2[k].parsed.order) = n
                       /\ \A l \in 1..n : \E i \in 1..n : stage2[k].parsed.order[i] = l
                 /\ ~stage2[k].parsed.valid => stage2[k].parsed.order = << >>
           /\ \A i \in 1..Len(aggregate_rankings) :
                 aggregate_rankings[i].rank_count = Cardinality(ValidSubmissions)
           /\ ValidSubmissions = {} => aggregate_rankings = << >>
           /\ ValidSubmissions # {} => Len(aggregate_rankings) = n

C8_Step ==
    /\ (phase = "Stage2Running" /\ phase' # phase) => phase' = "Stage2Settled"
    /\ (phase = "Stage2Settled" /\ phase' # phase) => phase' = "Stage3Running"

\* C8: a submission is valid only when it names every known label exactly
\* once; one with a missing, duplicated or unrecognized label is dropped
\* whole (no partial order is kept), adds nothing to the aggregate and
\* does not abort Stage 2; when every submission is invalid the aggregate
\* is empty and the run goes on to Stage 3.
C8_InvalidSubmissionsDropped == [](C8_State) /\ [][C8_Step]_vars

C8_Witness ==
    /\ phase = "Stage3Running"
    /\ Len(stage2) = 3
    /\ {stage2[k].ranking : k \in 1..3} = InvalidRankingTexts(3)
    /\ ValidSubmissions = {}
    /\ aggregate_rankings = << >>

\* C9: a run that reaches Stage 3 sends exactly one request to the
\* chairman; while it is in flight no Stage-1 or Stage-2 request is; a
\* completed run holds exactly one ChairmanOutcome.
C9_SingleChairmanRequest ==
    /\ dispatched[3] <= 1
    /\ InFlight(3) \in {0, 1}
    /\ InFlight(3) > 0 => (InFlight(1) = 0 /\ InFlight(2) = 0)
    /\ phase \in {"Stage3Running", "Complete", "AbortedSynthesisFailed"} =>
          (dispatched[3] = 1 /\ InFlight(1) = 0 /\ InFlight(2) = 0)
    /\ phase = "Complete" =>
          /\ result.kind = "DeliberationResult"
          /\ Len(result.chairman) = 1
          /\ result.chairman[1].model = chairman_model
          /\ chairman_task.net_ok
          /\ result.chairman[1].response = chairman_task.response.content
    /\ result.kind = "DeliberationResult" => phase = "Complete"

C9_Witness ==
    /\ phase = "Stage3Running"
    /\ InFlight(3) = 1
    /\ AllModelsDistinct(council_models)
    /\ settled[1] = 3
    /\ settled[2] = 3

C10_State ==
    /\ observer = "none" => notified = << >>
    /\ Len(notified) <= Len(StageNames)
    /\ \A k \in 1..Len(notified) :
          /\ notified[k] = StageNames[k]
          /\ dispatched[k] > 0
          /\ settled[k] = dispatched[k]
    /\ observer # "none" =>
          /\ \A k \in 1..2 : dispatched[k + 1] > 0 => Len(notified) >= k
          /\ phase = "Complete" => notified = StageNames

C10_Step ==
    Len(notified') # Len(notified) =>
        /\ notified' = Append(notified, StageNames[Len(notified) + 1])
        /\ Len(notified) < 2 => dispatched[Len(notified) + 2] = 0
        /\ dispatched' = dispatched
        /\ phase \in {"Stage1Settled", "Stage2Settled", "Stage3Running"}

\* C10: a supplied observer is invoked once per completed stage, in the
\* order stage1, stage2, stage3, each time after the stage's join and
\* before any request of the next stage is sent, and never for a stage
\* that has not settled.
C10_ObserverOncePerStage == [](C10_State) /\ [][C10_Step]_vars

C10_Witness ==
    /\ observer = "recording"
    /\ AllModelsDistinct(council_models)
    /\ phase = "Complete"
    /\ notified = StageNames
    /\ dispatched[1] = 3
    /\ dispatched[2] = 2

\* What a run without an observer ends in: a fatal condition of the
\* pipeline or a DeliberationResult.
RunEnded == result.kind # "Pending"

UnobservedOutcomes == {"NoResponses", "SynthesisFailed", "DeliberationResult"}

\* What the run without an observer hands to its caller for the calls
\* made: NoResponses when no model answered, SynthesisFailed when the
\* chairman's call failed, and the DeliberationResult otherwise.
UnobservedKind ==
    IF NoSuccessfulOutcome THEN "NoResponses"
    ELSE IF chairman_task.done /\ chairman_task.response.none THEN "SynthesisFailed"
    ELSE IF chairman_task.done THEN "DeliberationResult"
    ELSE "Pending"

\* C11: the observer has no influence on the outcome: a run with the
\* CLI's on_stage_complete attached that has ended has ended in what the
\* run without an observer ends in for the same model-call outcomes, with
\* the same stage data.
C11_CliObserverHasNoInfluence ==
    (observer = "cli" /\ RunEnded) =>
        /\ result.kind \in UnobservedOutcomes
        /\ result.kind = UnobservedKind
        /\ result.stage1 = stage1
        /\ result.stage2 = stage2

\* The same for an observer that returns from every invocation (this
\* holds).
C11_ReturningObserverHasNoInfluence ==
    (observer = "recording" /\ RunEnded) =>
        /\ result.kind \in UnobservedOutcomes
        /\ result.kind = UnobservedKind
        /\ result.stage1 = stage1
        /\ result.stage2 = stage2

\* C12: a run interrupted while it is in progress, in whatever stage, ends
\* in a cancellation outcome that is neither NoResponses nor
\* SynthesisFailed and carries no stage data and no chairman outcome; the
\* command then has printed nothing on stdout, has exited with the
\* interrupt status, and does nothing more.
C12_State ==
    phase = "Cancelled" =>
        /\ result.kind = "Cancelled"
        /\ result.kind \notin UnobservedOutcomes
        /\ result.stage1 = << >>
        /\ result.stage2 = << >>
        /\ result.aggregate_rankings = << >>
        /\ result.chairman = << >>
        /\ stdout = << >>
        /\ exit_status = <<EXIT_INTERRUPTED>>

C12_Step ==
    /\ phase # "Cancelled"
    /\ (exit_status = << >> /\ exit_status' = <<EXIT_INTERRUPTED>>) =>
            /\ RunInProgress
            /\ phase' = "Cancelled"
    /\ phase' = "Cancelled" => stdout' = << >>

C12_CancellationIsDistinctAndSilent == [](C12_State) /\ [][C12_Step]_vars

\* The chairman's request is in flight, with the data of Stage 1 and
\* Stage 2 gathered and --json given, when the interrupt arrives.
C12_Witness ==
    /\ phase = "Cancelled"
    /\ flags.json_output
    /\ dispatched[3] = 1
    /\ settled[3] = 0
    /\ Len(stage1) = 2
    /\ Len(stage2) = 2
    /\ exit_status = <<EXIT_INTERRUPTED>>

\* The output form the flags and the terminal call for: answer-only
\* before JSON before Markdown; without a format flag, JSON when stdout
\* is piped and the rich display when it is a terminal.
ExpectedForm(f) ==
    CASE f.answer_only -> "answer"
      [] ~f.answer_only /\ f.json_output -> "json"
      [] ~f.answer_only /\ ~f.json_output /\ f.markdown_output -> "markdown"
      [] ~f.answer_only /\ ~f.json_output /\ ~f.markdown_output /\ ~f.stdout_is_tty -> "json"
      [] OTHER -> "rich"

\* The command ended after its run completed.
CompletedRun == phase = "Complete" /\ exit_status = <<EXIT_OK>>

\* C17: for every combination of --json, --markdown, --answer-only and of
\* stdout being a terminal or piped, the rich display and the progress
\* observer are used exactly when stdout is a terminal and no format flag
\* is given, and a completed run of any other combination has printed
\* exactly one form on stdout: the answer before JSON before Markdown,
\* and JSON when stdout is piped and no format flag is given.
C17_OneOutputForm ==
    /\ use_rich(flags) <=> ExpectedForm(flags) = "rich"
    /\ observer = "cli" <=> ExpectedForm(flags) = "rich"
    /\ exit_status = << >> => stdout = << >>
    /\ CompletedRun =>
          stdout = IF ExpectedForm(flags) = "rich" THEN << >> ELSE <<ExpectedForm(flags)>>

\* A completed run with all three format flags given has printed the
\* answer alone.
C17_Witness ==
    /\ CompletedRun
    /\ flags.answer_only
    /\ flags.json_output
    /\ flags.markdown_output
    /\ stdout = <<"answer">>

\* The spellings a name can start with to be an OpenAI or an Anthropic
\* Opus model, and the spellings of "codex".
OpenAISpellings == {"openai/", "OpenAI/"}

OpusSpellings == {"anthropic/claude-opus-", "Anthropic/Claude-OPUS-"}

CodexSpellings == {"codex", "CODEX"}

\* The models the claim names: OpenAI Codex and Anthropic Opus variants.
NamedForXhigh(m) ==
    \/ m[1] \in OpenAISpellings /\ \E i \in 1..Len(m) : m[i] \in CodexSpellings
    \/ m[1] \in OpusSpellings

C13_State ==
    request.called =>
        /\ ("reasoning" \in DOMAIN request.payload) <=> NamedForXhigh(request.model)
        /\ "reasoning" \in DOMAIN request.payload =>
              request.payload.reasoning = [effort |-> "xhigh"]
        /\ DOMAIN request.payload \subseteq {"model", "messages", "max_tokens", "reasoning"}
        /\ request.payload.model = request.model
        /\ request.payload.messages = request.messages
        /\ request.payload.max_tokens = request.max_tokens

\* Building a payload changes nothing but the payload.
C13_Step == UNCHANGED <<run, flags, stdout, exit_status, env, config>>

\* C13: build_request_payload puts reasoning effort "xhigh" in the payload
\* exactly when the lower-cased model name starts with "openai/" and
\* contains "codex", or starts with "anthropic/claude-opus-"; any other
\* payload has no "reasoning" key; the payload always carries the model,
\* messages and max_tokens it was given, so that the payload is fixed by
\* the arguments; the call has no other effect.
C13_ReasoningEffortMapping == [](C13_State) /\ [][C13_Step]_vars

\* A Codex model spelt with capitals, with a max_tokens of the caller's.
C13_Witness ==
    /\ request.called
    /\ request.model = <<"OpenAI/", "gpt-5.3-", "CODEX">>
    /\ request.max_tokens # PAYLOAD_MAX_TOKENS
    /\ request.payload.reasoning.effort = "xhigh"

\* The config file's mapping has the key.
FileHas(key) == env.file.exists /\ env.file.valid_yaml /\ env.file.data[key].has

Loaded == config.kind = "CouncilConfig"

\* The value a setting has by the precedence CLI override, environment,
\* config file, built-in default, read off the inputs.
ByPrecedence(override_given, overridden, key, default) ==
    IF override_given THEN overridden
    ELSE IF FileHas(key) THEN env.file.data[key].value
    ELSE default

ModelsByPrecedence ==
    ByPrecedence(env.models_override.value # << >>, env.models_override,
                 "council_models", List(DEFAULT_COUNCIL_MODELS))

ChairmanByPrecedence ==
    ByPrecedence(env.chairman_override.value # "", env.chairman_override,
                 "chairman_model", Str(DEFAULT_CHAIRMAN_MODEL))

\* The settings that only the config file and the defaults supply.
FileSettingsByPrecedence ==
    /\ config.api_url = ByPrecedence(FALSE, "", "api_url", DEFAULT_API_URL)
    /\ config.timeout =
          IF FileHas("timeout") THEN env.file.data.timeout.value.n ELSE DEFAULT_TIMEOUT
    /\ config.max_tokens =
          IF FileHas("max_tokens") THEN env.file.data.max_tokens.value.n
          ELSE DEFAULT_MAX_TOKENS

\* float() of the file's timeout or int() of its max_tokens raises.
NumericSettingRaises ==
    \/ FileHas("timeout") /\ env.file.data.timeout.value.type \in {"word", "null"}
    \/ FileHas("max_tokens") /\ env.file.data.max_tokens.value.type \in {"word", "null"}

\* C14: load_config resolves each setting by the precedence CLI override >
\* environment variable > config file > built-in default: a non-empty
\* models or chairman override always wins over the file's value, an
\* OPENROUTER_API_KEY in the environment always wins over the file's
\* api_key, and the file's value is used whenever no higher source
\* supplies one.  "Always" for the models override: whenever the call
\* neither raises ConfigError nor fails on the file's numeric settings,
\* it returns a configuration with the override's models.
C14_Precedence ==
    /\ Loaded =>
          /\ config.council_models = ModelsByPrecedence.value
          /\ config.chairman_model = ChairmanByPrecedence.value
          /\ config.api_key =
                ByPrecedence(~env.OPENROUTER_API_KEY.is_none, env.OPENROUTER_API_KEY,
                             "api_key", NoStr).value
          /\ FileSettingsByPrecedence
    /\ (/\ config.kind \notin {"NotLoaded", "ConfigError"}
        /\ ~NumericSettingRaises
        /\ env.models_override.value # << >>) =>
          /\ Loaded
          /\ config.council_models = env.models_override.value

\* The precedence in the configurations load_config returns, with an
\* empty OPENROUTER_API_KEY counted as unset (this holds).
C14_PrecedenceOfReturnedConfig ==
    Loaded =>
        /\ config.council_models = ModelsByPrecedence.value
        /\ config.chairman_model = ChairmanByPrecedence.value
        /\ config.api_key =
              ByPrecedence(env.OPENROUTER_API_KEY.value # "", env.OPENROUTER_API_KEY,
                           "api_key", NoStr).value
        /\ FileSettingsByPrecedence

\* A non-empty models override does not win over a null council_models
\* of the file: the call ends in TypeError (this state is reached).
C14_OverrideLosesToNullInFile ==
    /\ config.kind = "TypeError"
    /\ env.models_override.value # << >>
    /\ FileHas("council_models")
    /\ env.file.data.council_models.value.is_none
    /\ env.OPENROUTER_API_KEY = Str("env-key")

\* C15: with an API key in the environment, no config file and no
\* overrides, load_config returns the council models openai/gpt-5.2-codex,
\* openai/gpt-5.2-pro, google/gemini-3-pro-preview,
\* anthropic/claude-opus-4.6, in that order, and the chairman model
\* anthropic/claude-opus-4.6.
C15_DefaultLineup ==
    (/\ config.kind # "NotLoaded"
     /\ env.OPENROUTER_API_KEY = Str("env-key")
     /\ ~env.file.exists
     /\ env.models_override.is_none
     /\ env.chairman_override.is_none) =>
        /\ Loaded
        /\ config.council_models =
              <<"openai/gpt-5.2-codex", "openai/gpt-5.2-pro", "google/gemini-3-pro-preview",
                "anthropic/claude-opus-4.6">>
        /\ config.chairman_model = "anthropic/claude-opus-4.6"

\* No source has an API key: none in the environment, none in the file.
NoApiKeyAvailable ==
    /\ env.OPENROUTER_API_KEY.value = ""
    /\ ~(FileHas("api_key") /\ env.file.data.api_key.value.value # "")

\* C16: load_config raises ConfigError whenever no API key is available
\* from the environment or the file, the resolved council list is empty
\* or the resolved chairman model is empty; every CouncilConfig it
\* returns has a non-empty API key, at least one council model and a
\* non-empty chairman model.
C16_ValidOrConfigError ==
    config.kind # "NotLoaded" =>
        /\ (\/ NoApiKeyAvailable
            \/ ModelsByPrecedence.value = << >>
            \/ ChairmanByPrecedence.value = "") => config.kind = "ConfigError"
        /\ Loaded =>
              /\ config.api_key # ""
              /\ config.council_models # << >>
              /\ config.chairman_model # ""

\* The config file's mapping makes the block that reads it raise: a null
\* council_models, a timeout or a max_tokens that is no number.
FileBlockRaises ==
    /\ env.file.exists
    /\ env.file.valid_yaml
    /\ \/ FileHas("council_models") /\ env.file.data.council_models.value.is_none
       \/ FileHas("timeout") /\ env.file.data.timeout.value.type \in {"word", "null"}
       \/ FileHas("max_tokens") /\ env.file.data.max_tokens.value.type \in {"word", "null"}

\* The same for the calls in which reading the file raises nothing, and
\* for every configuration returned (this holds); the calls in which it
\* raises end in TypeError or ValueError.
C16_ValidOrConfigErrorUnlessFileRaises ==
    config.kind # "NotLoaded" =>
        /\ FileBlockRaises <=> config.kind \in {"TypeError", "ValueError"}
        /\ (/\ ~FileBlockRaises
            /\ \/ NoApiKeyAvailable
               \/ ModelsByPrecedence.value = << >>
               \/ ChairmanByPrecedence.value = "") => config.kind = "ConfigError"
        /\ Loaded =>
              /\ config.api_key # ""
              /\ config.council_models # << >>
              /\ config.chairman_model # ""

====
